---- MODULE Spec2Model ----
(***************************************************************************)
(* Project selector expression engine of rush-lib: RushProjectSelector     *)
(* (selectExpression and its three evaluators), the JSON-file scope that   *)
(* re-enters it, and the scope registry built by the constructor.          *)
(*                                                                         *)
(* selectExpression is an async recursion.  It is modelled as a stack of   *)
(* frames, one per pending selectExpression call; every action is one      *)
(* stretch of code between two awaits.  Each call that settles appends its *)
(* outcome to `log`, so that a property of "every sub-expression X" is a   *)
(* property of the log entries of one evaluation.                          *)
(***************************************************************************)
EXTENDS Integers, Sequences, FiniteSets, TLC

VARIABLES projects, dependencies, scopes, stack, log, result,
          resultCache, requests

vars == <<projects, dependencies, scopes, stack, log, result, resultCache, requests>>

\* the state of the project selector, and that of the LocalMinifier
selectorVars == <<projects, dependencies, scopes, stack, log, result>>

minifierVars == <<resultCache, requests>>

----------------------------------------------------------------------------
(* Bounds of the model *)

\* number of projects of the monorepo
NumProjects == 4
\* largest number of dependency edges of a graph drawn by InitGraphs
MaxEdges == 4
\* largest number of nodes of an expression passed to selectExpression
MaxNodes == 3
\* deepest chain of JSON-file inclusions that is followed
MaxInclusions == 2
\* the longest sequence a scope parser yields, where any sequence is allowed
MaxYield == 2
\* number of minify calls made on one LocalMinifier
MaxRequests == 3

----------------------------------------------------------------------------
(* Small helpers *)

Range(s) == {s[i] : i \in DOMAIN s}

\* sub occurs in s as a contiguous run (string containment on token sequences)
Contains(s, sub) ==
    \E i \in 0..(Len(s) - Len(sub)) :
        \A j \in 1..Len(sub) : s[i + j] = sub[j]

IsPrefix(p, s) == Len(p) <= Len(s) /\ \A i \in 1..Len(p) : s[i] = p[i]

----------------------------------------------------------------------------
(* The graph model: RushConfiguration.projects and the dependency edges *)

ProjectNames == <<"A", "B", "C", "D", "E", "F">>

\* rushConfig.projects: the project list, in rush.json order
ProjectList == [i \in 1..NumProjects |-> ProjectNames[i]]

Projects == Range(ProjectList)

\* an edge <<p, q>> reads "p depends on q"
Edges == {e \in Projects \X Projects : e[1] # e[2]}

AllGraphs == {g \in SUBSET Edges : Cardinality(g) <= MaxEdges}

\* A -> B -> C -> ...
Chain == {<<ProjectList[i], ProjectList[i + 1]>> : i \in 1..(NumProjects - 1)}

\* the chain closed into a cycle
Ring == Chain \cup {<<ProjectList[NumProjects], ProjectList[1]>>}

\* the first project depends on every middle one, each of which depends on the last
Diamond ==
    {<<ProjectList[1], ProjectList[i]>> : i \in 2..(NumProjects - 1)} \cup
    {<<ProjectList[i], ProjectList[NumProjects]>> : i \in 2..(NumProjects - 1)}

SampleGraphs == {Chain, Ring, Diamond}

\* RushConfiguration.projectsByTag
projectsByTag(tag) ==
    CASE tag = "frontend" -> {"A", "B"}
      [] tag = "backend" -> {"C"}
      [] OTHER -> {}

\* projects of a version policy
projectsByVersionPolicy(policy) ==
    CASE policy = "stable" -> {"B", "C"}
      [] OTHER -> {}

\* what the change detector may report for the git scope
GitChanges == {<<>>, <<"B">>, <<"C", "A">>}

----------------------------------------------------------------------------
(* Outcomes of an async call: pending, resolved with an array, rejected *)

NoError == [kind |-> "", message |-> <<>>]

Pending == [status |-> "pending", value |-> <<>>, error |-> NoError]

Resolved(value) == [status |-> "ok", value |-> value, error |-> NoError]

Rejected(error) == [status |-> "err", value |-> <<>>, error |-> error]

SelectorError(message) == [kind |-> "SelectorError", message |-> message]

\* reading a property of undefined
TypeError == [kind |-> "TypeError", message |-> <<"Cannot read properties of undefined">>]

\* the array of the members of a Set, in project-list order
SetToSeq(S) == SelectSeq(ProjectList, LAMBDA p : p \in S)

----------------------------------------------------------------------------
(* Expression nodes.  A node is a JSON object; a key that is absent (or    *)
(* falsy) is the empty string, an absent arg is the empty sequence.        *)

Node(scope, value, filter, arg, op, args) ==
    [scope |-> scope, value |-> value, filter |-> filter, arg |-> arg,
     op |-> op, args |-> args]

\* { scope, value }
Sel(scope, value) == Node(scope, value, "", <<>>, "", <<>>)

\* { filter, arg }
Flt(filter, arg) == Node("", "", filter, <<arg>>, "", <<>>)

\* { op, args }
Op(op, args) == Node("", "", "", <<>>, op, args)

\* {}
EmptyObject == Node("", "", "", <<>>, "", <<>>)

\* an _isSelector that accepts only a node of the selector shape alone
isSelector_OneShapeOnly(expr) == expr.scope # "" /\ expr.filter = "" /\ expr.op = ""

isSelector(expr) == expr.scope # ""

isFilter(expr) == expr.filter # ""

isOperator(expr) == expr.op # ""

----------------------------------------------------------------------------
(* Selection: the graph closure operations.  A JavaScript Set is a         *)
(* duplicate-free sequence in insertion order.                             *)

RECURSIVE NewSetFrom(_, _)
NewSetFrom(acc, items) ==
    IF items = <<>> THEN acc
    ELSE NewSetFrom(IF Head(items) \in Range(acc) THEN acc ELSE Append(acc, Head(items)),
                    Tail(items))

\* new Set(iterable)
NewSet(items) == NewSetFrom(<<>>, items)

dependencyProjects(p) == {q \in Projects : <<p, q>> \in dependencies}

consumingProjects(p) == {q \in Projects : <<q, p>> \in dependencies}

expandStep(p, direction) ==
    IF direction = "dependencies" THEN dependencyProjects(p) ELSE consumingProjects(p)

\* visit every member of the growing set once, adding what one step reaches
RECURSIVE expandAll(_, _, _)
expandAll(visited, i, direction) ==
    IF i > Len(visited) THEN visited
    ELSE expandAll(NewSetFrom(visited, SetToSeq(expandStep(visited[i], direction))),
                   i + 1, direction)

expandAllDependencies(input) == expandAll(NewSet(input), 1, "dependencies")

expandAllConsumers(input) == expandAll(NewSet(input), 1, "consumers")

intersection(first, second) == SelectSeq(first, LAMBDA p : p \in Range(second))

union(first, second) == NewSet(first \o second)

----------------------------------------------------------------------------
(* Error messages and contexts: a string built by a template literal is    *)
(* the sequence of its literal pieces and interpolated values.             *)

UnknownScopeMessage(scope, value, context) ==
    <<"Unknown selector scope '", scope, "' for value '", value, "' in ">>
        \o context \o <<".">>

\* a context that names the file and leaves out where the selector came from
JsonFileContext_FileOnly(unscopedSelector, context) ==
    <<"JSON file ", unscopedSelector>>

\* a message that does not interpolate the filter
UnknownFilterMessage_NoKind(filter, context) ==
    <<"Unknown filter encountered in selector expression in ">> \o context \o <<".">>

UnknownFilterMessage(filter, context) ==
    <<"Unknown filter '", filter, "' encountered in selector expression in ">>
        \o context \o <<".">>

UnknownOperatorMessage(op, context) ==
    <<"Unknown operator '", op, "' in selector expression in ">> \o context \o <<".">>

InvalidObjectMessage(context) ==
    <<"Invalid object encountered in selector expression in ">> \o context \o <<".">>

JsonNotFoundMessage(absolutePath, context) ==
    <<"Unable to find JSON file at \"">> \o absolutePath \o <<"\" in ">>
        \o context \o <<".">>

JsonFileContext(unscopedSelector, context) ==
    <<"JSON file ", unscopedSelector, " in ">> \o context

----------------------------------------------------------------------------
(* The evaluator's pure steps *)

\* the filters _evaluateFilter knows
KnownFilters == {"to", "from", "only"}

\* the operators _evaluateOperator knows
KnownOperators == {"not", "and", "or"}

\* a 'to' that adds the direct dependencies only
EvaluateFilterResult_ToOneHop(filter, arg) ==
    CASE filter = "to" ->
            NewSetFrom(NewSet(arg),
                       SetToSeq(UNION {dependencyProjects(p) : p \in Range(arg)}))
      [] filter = "from" -> expandAllDependencies(expandAllConsumers(arg))
      [] filter = "only" -> arg

\* a 'from' that expands the dependencies first and the consumers second
EvaluateFilterResult_FromSwapped(filter, arg) ==
    CASE filter = "to" -> expandAllDependencies(arg)
      [] filter = "from" -> expandAllConsumers(expandAllDependencies(arg))
      [] filter = "only" -> arg

\* an 'only' that expands like 'to'
EvaluateFilterResult_OnlyExpands(filter, arg) ==
    CASE filter = "to" -> expandAllDependencies(arg)
      [] filter = "from" -> expandAllDependencies(expandAllConsumers(arg))
      [] filter = "only" -> expandAllDependencies(arg)

\* a 'to' that returns the dependencies without the projects it was given
EvaluateFilterResult_ToDropsInput(filter, arg) ==
    CASE filter = "to" ->
            SelectSeq(expandAllDependencies(arg), LAMBDA p : p \notin Range(arg))
      [] filter = "from" -> expandAllDependencies(expandAllConsumers(arg))
      [] filter = "only" -> arg

\* what _evaluateFilter returns once its argument has resolved to arg
EvaluateFilterResult(filter, arg) ==
    CASE filter = "to" -> expandAllDependencies(arg)
      [] filter = "from" -> expandAllDependencies(expandAllConsumers(arg))
      [] filter = "only" -> arg

\* how many arguments _evaluateOperator evaluates for op
OperatorArity(op) == IF op = "not" THEN 1 ELSE 2

\* a 'not' whose test is not negated
EvaluateOperatorResult_NotKeeps(op, vals) ==
    CASE op = "not" -> SelectSeq(projects, LAMBDA p : p \in Range(vals[1]))
      [] op = "and" -> intersection(NewSet(vals[1]), NewSet(vals[2]))
      [] op = "or" -> union(NewSet(vals[1]), NewSet(vals[2]))

\* a 'not' that skips the first project of the list
EvaluateOperatorResult_NotSkipsFirst(op, vals) ==
    CASE op = "not" -> SelectSeq(Tail(projects), LAMBDA p : p \notin Range(vals[1]))
      [] op = "and" -> intersection(NewSet(vals[1]), NewSet(vals[2]))
      [] op = "or" -> union(NewSet(vals[1]), NewSet(vals[2]))

\* an 'and' that calls union
EvaluateOperatorResult_AndUnites(op, vals) ==
    CASE op = "not" -> SelectSeq(projects, LAMBDA p : p \notin Range(vals[1]))
      [] op = "and" -> union(NewSet(vals[1]), NewSet(vals[2]))
      [] op = "or" -> union(NewSet(vals[1]), NewSet(vals[2]))

\* an 'or' that passes its first argument twice
EvaluateOperatorResult_OrFirstTwice(op, vals) ==
    CASE op = "not" -> SelectSeq(projects, LAMBDA p : p \notin Range(vals[1]))
      [] op = "and" -> intersection(NewSet(vals[1]), NewSet(vals[2]))
      [] op = "or" -> union(NewSet(vals[1]), NewSet(vals[1]))

\* an 'or' that concatenates its arguments
EvaluateOperatorResult_OrConcats(op, vals) ==
    CASE op = "not" -> SelectSeq(projects, LAMBDA p : p \notin Range(vals[1]))
      [] op = "and" -> intersection(NewSet(vals[1]), NewSet(vals[2]))
      [] op = "or" -> vals[1] \o vals[2]

\* what _evaluateOperator returns once its arguments have resolved to vals
EvaluateOperatorResult(op, vals) ==
    CASE op = "not" -> SelectSeq(projects, LAMBDA p : p \notin Range(vals[1]))
      [] op = "and" -> intersection(NewSet(vals[1]), NewSet(vals[2]))
      [] op = "or" -> union(NewSet(vals[1]), NewSet(vals[2]))

----------------------------------------------------------------------------
(* The scope registry and the scope parsers *)

\* this._scopes after the constructor: scope name -> parser
RegisteredScopes ==
    [name |-> "NamedProjectSelectorParser",
     git |-> "GitChangedProjectSelectorParser",
     tag |-> "TagProjectSelectorParser",
     json |-> "JsonFileSelectorParser"] @@
    ("version-policy" :> "VersionPolicyProjectSelectorParser")

\* this._scopes.get(scope); "undefined" when the scope is not registered
scopesGet(scope) == IF scope \in DOMAIN scopes THEN scopes[scope] ELSE "undefined"

\* the outcomes evaluateSelectorAsync of a parser other than the JSON-file one can have
evaluateSelectorAsync(parser, unscopedSelector, context) ==
    CASE parser = "NamedProjectSelectorParser" ->
            IF unscopedSelector \in Range(projects)
            THEN {Resolved(<<unscopedSelector>>)}
            ELSE {Rejected(SelectorError(
                     <<"The project '", unscopedSelector, "' does not exist in ">>
                         \o context \o <<".">>))}
      [] parser = "TagProjectSelectorParser" ->
            {Resolved(SelectSeq(projects, LAMBDA p : p \in projectsByTag(unscopedSelector)))}
      [] parser = "VersionPolicyProjectSelectorParser" ->
            {Resolved(SelectSeq(projects,
                                LAMBDA p : p \in projectsByVersionPolicy(unscopedSelector)))}
      [] parser = "GitChangedProjectSelectorParser" ->
            {Resolved(changed) : changed \in GitChanges}

\* file.startsWith('.')
startsWithDot(file) == file \in {"./nested.json", "./loop.json"}

\* JsonFileSelectorParser.getAbsolutePath: path.resolve(base, file)
getAbsolutePath(file) ==
    IF startsWithDot(file) THEN <<"<cwd>/", file>> ELSE <<"<rushJsonFolder>/", file>>

Loaded(expr) == [state |-> "loaded", expr |-> <<expr>>]

\* the file does not exist
NotExist == [state |-> "notExist", expr |-> <<>>]

\* the file exists and fails to parse or to validate against the schema
Invalid == [state |-> "invalid", expr |-> <<>>]

\* the selector expression files on disk
FileSystem(absolutePath) ==
    CASE absolutePath = <<"<rushJsonFolder>/", "sel.json">> ->
            Loaded(Flt("only", Sel("tag", "frontend")))
      [] absolutePath = <<"<cwd>/", "./nested.json">> ->
            Loaded(Sel("json", "deep.json"))
      [] absolutePath = <<"<rushJsonFolder>/", "deep.json">> ->
            Loaded(Sel("bogus", "y"))
      [] absolutePath = <<"<cwd>/", "./loop.json">> ->
            Loaded(Op("or", <<Sel("name", "A"), Sel("json", "./loop.json")>>))
      [] absolutePath = <<"<rushJsonFolder>/", "bad.json">> -> Invalid
      [] OTHER -> NotExist

\* the error JsonFile.loadAndValidateAsync throws for an invalid file
LoaderError == [kind |-> "Error", message |-> <<"JSON validation failed">>]

\* SelectorExpressionJsonFile.tryLoadAsync: the expression, undefined for a file
\* that does not exist, the loader's error rethrown otherwise
tryLoadAsync(absolutePath) ==
    LET file == FileSystem(absolutePath) IN
    CASE file.state = "loaded" -> [threw |-> FALSE, error |-> NoError, expr |-> file.expr]
      [] file.state = "notExist" -> [threw |-> FALSE, error |-> NoError, expr |-> <<>>]
      [] file.state = "invalid" -> [threw |-> TRUE, error |-> LoaderError, expr |-> <<>>]

----------------------------------------------------------------------------
(* The expressions and contexts callers pass *)

\* the context strings of the callers
Contexts == {<<"parameter --to">>, <<"command-line.json">>}

\* the single-node expressions: one selector per kind of scope outcome, and {}
Leaves ==
    {Sel("name", "A"), Sel("name", "Z"),
     Sel("tag", "frontend"), Sel("tag", "backend"),
     Sel("git", "main"), Sel("version-policy", "stable"),
     Sel("json", "sel.json"), Sel("json", "./nested.json"), Sel("json", "./loop.json"),
     Sel("json", "bad.json"), Sel("json", "gone.json"),
     Sel("bogus", "x"), EmptyObject}

\* the filter and operator kinds that occur, an unknown one of each included
FilterKinds == KnownFilters \cup {"up"}

BinaryKinds == {"and", "or", "xor"}

\* every expression of exactly n nodes
RECURSIVE ExprsOfSize(_)
ExprsOfSize(n) ==
    IF n = 1 THEN Leaves
    ELSE {Flt(f, x) : f \in FilterKinds, x \in ExprsOfSize(n - 1)}
         \cup {Op("not", <<x>>) : x \in ExprsOfSize(n - 1)}
         \cup UNION {{Op(o, <<x, y>>) :
                         o \in BinaryKinds, x \in ExprsOfSize(i), y \in ExprsOfSize(n - 1 - i)}
                     : i \in 1..(n - 2)}

RootExprs == UNION {ExprsOfSize(n) : n \in 1..MaxNodes}

\* the selectors whose result the graph filters expand
GraphArgs == {Sel("name", "A"), Sel("name", "C"), Sel("tag", "frontend"), Sel("git", "main")}

\* the expressions evaluated on every graph: the graph filters, and one
\* expression through each other path of the evaluator
GraphExprs ==
    {Flt(f, x) : f \in {"to", "from"}, x \in GraphArgs}
    \cup {Flt("to", Flt("to", x)) : x \in GraphArgs}
    \cup {Op("and", <<Flt("from", Sel("name", "C")), Sel("json", "sel.json")>>),
          Op("not", <<Flt("to", EmptyObject)>>)}

\* the well-formed arguments of the nodes below
ShapeArgs == {Sel("name", "A"), Sel("name", "B"), Sel("json", "sel.json"), EmptyObject}

\* nodes the schema rejects for a missing argument: a filter without arg, an
\* operator with fewer args than it reads
MissingArgNodes ==
    {Node("", "", f, <<>>, "", <<>>) : f \in FilterKinds}
    \cup {Op(o, <<>>) : o \in KnownOperators}
    \cup {Op(o, <<x>>) : o \in {"and", "or"}, x \in ShapeArgs}

\* nodes the schema rejects for carrying the keys of more than one shape, or
\* an empty scope
MultiKeyNodes ==
    {Node("name", "A", "to", <<x>>, "", <<>>) : x \in ShapeArgs}
    \cup {Node("tag", "frontend", "", <<>>, "not", <<x>>) : x \in ShapeArgs}
    \cup {Node("name", "B", "only", <<x>>, "and", <<x, x>>) : x \in ShapeArgs}
    \cup {Node("", "", "only", <<x>>, "not", <<y>>) : x, y \in ShapeArgs}
    \cup {Node("", "A", "to", <<x>>, "", <<>>) : x \in ShapeArgs}
    \cup {Node("", "A", "", <<>>, "not", <<x>>) : x \in ShapeArgs}
    \cup {Node("", "A", "", <<>>, "", <<>>)}

\* the expressions a caller that skips schema validation may pass: the nodes
\* above, alone and as a sub-expression, beside well-formed ones
UnvalidatedExprs ==
    MissingArgNodes \cup MultiKeyNodes \cup ShapeArgs
    \cup {Flt("to", m) : m \in MissingArgNodes \cup MultiKeyNodes}
    \cup {Op("or", <<Sel("name", "A"), m>>) : m \in MissingArgNodes}
    \cup {Op("and", <<x, y>>) : x, y \in ShapeArgs}

\* what an Iterable of projects can yield: any sequence, repeats included
Yields == UNION {[1..n -> Projects] : n \in 0..MaxYield}

\* the expressions evaluated over parsers that yield any sequence: a selector
\* alone, under each filter and operator, and through a JSON file
YieldExprs ==
    {Sel("git", "main"), Sel("json", "sel.json"), EmptyObject}
    \cup {Flt(f, Sel("git", "main")) : f \in KnownFilters}
    \cup {Op("not", <<Sel("git", "main")>>),
          Op("and", <<Sel("git", "main"), Sel("tag", "frontend")>>),
          Op("or", <<Sel("git", "main"), Sel("version-policy", "stable")>>),
          Op("or", <<Sel("name", "A"), Sel("name", "A")>>),
          Flt("only", Sel("name", "Z"))}

----------------------------------------------------------------------------
(* Frames and the log *)

\* a pending call selectExpression(node, context); path places it in the
\* evaluation: <<>> the root, i the i-th argument, 0 the expression of a JSON file
Frame(node, context, path) ==
    [node |-> node, context |-> context, path |-> path, pc |-> "start",
     vals |-> <<>>, outcome |-> Pending]

Event(ev, frame, outcome) ==
    [ev |-> ev, path |-> frame.path, node |-> frame.node, context |-> frame.context,
     outcome |-> outcome]

\* no call of selectExpression is outstanding and none has settled unobserved
NoCall == [status |-> "none", value |-> <<>>, error |-> NoError]

Top == stack[Len(stack)]

\* the JSON files being evaluated on the current call chain
InclusionDepth ==
    Cardinality({i \in DOMAIN stack :
                    stack[i].path # <<>> /\ stack[i].path[Len(stack[i].path)] = 0})

\* the promise of the frame at position i settles
Settle(i, outcome) ==
    /\ stack' = SubSeq(stack, 1, i - 1)
                    \o <<[stack[i] EXCEPT !.pc = "settled", !.outcome = outcome]>>
    /\ log' = Append(log, Event("exit", stack[i], outcome))

\* the frame at position i awaits selectExpression(child, context)
Await(i, vals, child, context, index) ==
    LET frame == Frame(child, context, Append(stack[i].path, index)) IN
    /\ stack' = SubSeq(stack, 1, i - 1)
                    \o <<[stack[i] EXCEPT !.pc = "await", !.vals = vals]>>
                    \o <<frame>>
    /\ log' = Append(log, Event("enter", frame, Pending))

----------------------------------------------------------------------------
(* LocalMinifier: minify, its result cache and the promise chain of        *)
(* minifySingleFile(...).then(...).catch(...)                              *)

\* the hashes of the modules requested
Hashes == {"h1", "h2"}

\* an IModuleMinificationResult; run is the minify call that produced the object
MinificationResult(hash, code, error, run) ==
    [hash |-> hash, code |-> code, error |-> error, run |-> run]

\* what the promise of minifySingleFile resolves to for the call run: the
\* minified code, or a result that carries the minifier's error
MinifiedResults(hash, run) ==
    {MinificationResult(hash, "minified", "", run),
     MinificationResult(hash, "", "minify error", run)}

\* the object the catch handler builds: { error, code: undefined, map: undefined, hash }
ErrorResult(hash, error, run) == MinificationResult(hash, "", error, run)

\* this._resultCache.get(hash), undefined being <<>>
resultCacheGet(hash) ==
    IF hash \in DOMAIN resultCache THEN <<resultCache[hash]>> ELSE <<>>

\* this._resultCache.set(hash, result)
resultCacheSet(hash, value) ==
    [h \in DOMAIN resultCache \cup {hash} |->
        IF h = hash THEN value ELSE resultCache[h]]

\* one call of minify: pc is where its promise chain stands, cached what the
\* cache held when it was called, ran whether minifySingleFile was called,
\* calls the arguments of the invocations of its callback, in order
Request(hash, pc, cached, ran, calls) ==
    [hash |-> hash, pc |-> pc, cached |-> cached, ran |-> ran, calls |-> calls,
     value |-> <<>>, error |-> ""]

\* the LocalMinifier after its constructor: an empty result cache
NewLocalMinifier ==
    /\ resultCache = <<>>
    /\ requests = <<>>

\* minify(request, callback): a cached result goes to the callback at once,
\* and what the callback throws reaches the caller; otherwise
\* minifySingleFile is called and the two handlers are attached
Minify ==
    /\ Len(requests) < MaxRequests
    /\ \E hash \in Hashes :
          LET cached == resultCacheGet(hash) IN
          IF cached # <<>>
          THEN \E threw \in BOOLEAN :
                  requests' = Append(requests,
                      Request(hash, IF threw THEN "threw" ELSE "returned",
                              cached, FALSE, cached))
          ELSE requests' = Append(requests,
                      Request(hash, "minifying", cached, TRUE, <<>>))
    /\ UNCHANGED <<selectorVars, resultCache>>

\* the promise of minifySingleFile settles: it resolves with a result or rejects
MinifySingleFileSettles ==
    /\ \E i \in DOMAIN requests :
          /\ requests[i].pc = "minifying"
          /\ \/ \E r \in MinifiedResults(requests[i].hash, i) :
                    requests' = [requests EXCEPT ![i].pc = "then", ![i].value = <<r>>]
             \/ requests' = [requests EXCEPT ![i].pc = "catch",
                                              ![i].error = "minifySingleFile rejected"]
    /\ UNCHANGED <<selectorVars, resultCache>>

\* the then handler: the result is cached, then passed to the callback; what
\* the callback throws rejects the promise the catch handler is attached to
ThenHandler ==
    /\ \E i \in DOMAIN requests :
          /\ requests[i].pc = "then"
          /\ LET r == requests[i].value[1] IN
             /\ resultCache' = resultCacheSet(requests[i].hash, r)
             /\ \E threw \in BOOLEAN :
                   requests' = [requests EXCEPT
                       ![i].calls = Append(@, r),
                       ![i].pc = IF threw THEN "catch" ELSE "returned",
                       ![i].error = IF threw THEN "callback threw" ELSE ""]
    /\ UNCHANGED selectorVars

\* a catch handler that stores the result it builds
CatchHandler_Caches ==
    /\ \E i \in DOMAIN requests :
          /\ requests[i].pc = "catch"
          /\ LET r == ErrorResult(requests[i].hash, requests[i].error, i) IN
             /\ resultCache' = resultCacheSet(requests[i].hash, r)
             /\ \E threw \in BOOLEAN :
                   requests' = [requests EXCEPT
                       ![i].calls = Append(@, r),
                       ![i].pc = IF threw THEN "unhandled" ELSE "returned"]
    /\ UNCHANGED selectorVars

\* the catch handler: the callback is given a result that carries the error;
\* what the callback throws here is an unhandled rejection
CatchHandler ==
    /\ \E i \in DOMAIN requests :
          /\ requests[i].pc = "catch"
          /\ \E threw \in BOOLEAN :
                requests' = [requests EXCEPT
                    ![i].calls = Append(@, ErrorResult(requests[i].hash,
                                                       requests[i].error, i)),
                    ![i].pc = IF threw THEN "unhandled" ELSE "returned"]
    /\ UNCHANGED <<selectorVars, resultCache>>

----------------------------------------------------------------------------
(* Construction *)

Constructed ==
    /\ projects = ProjectList
    /\ scopes = RegisteredScopes
    /\ stack = <<>>
    /\ log = <<>>
    /\ result = NoCall

\* a monorepo whose dependency graph is a chain, a cycle or a diamond
Init == Constructed /\ NewLocalMinifier /\ dependencies \in SampleGraphs

\* a monorepo with any dependency graph of at most MaxEdges edges
InitGraphs == Constructed /\ NewLocalMinifier /\ dependencies \in AllGraphs

----------------------------------------------------------------------------
(* The actions *)

\* selectExpression(expr, context) is called
Call(expr, context) ==
    /\ stack' = <<Frame(expr, context, <<>>)>>
    /\ log' = <<Event("enter", Frame(expr, context, <<>>), Pending)>>
    /\ result' = Pending
    /\ UNCHANGED <<minifierVars, projects, dependencies, scopes>>

\* no call is outstanding
Idle == stack = <<>> /\ result = NoCall

\* a caller selects with an expression of at most MaxNodes nodes
SelectExpression ==
    /\ Idle
    /\ \E expr \in RootExprs, context \in Contexts : Call(expr, context)

\* a caller selects with one of the graph expressions
SelectGraphExpression ==
    /\ Idle
    /\ \E expr \in GraphExprs : Call(expr, <<"parameter --to">>)

\* a caller selects with an expression that was not schema-validated
SelectUnvalidatedExpression ==
    /\ Idle
    /\ \E expr \in UnvalidatedExprs, context \in Contexts : Call(expr, context)

\* a caller selects with one of the expressions over any-sequence parsers
SelectYieldExpression ==
    /\ Idle
    /\ \E expr \in YieldExprs : Call(expr, <<"parameter --to">>)

\* an _evaluateSelector that selects nothing for a scope it does not know
EvaluateSelector_UnknownIsEmpty ==
    /\ stack # <<>>
    /\ Top.pc = "start"
    /\ isSelector(Top.node)
    /\ IF scopesGet(Top.node.scope) = "undefined"
       THEN Settle(Len(stack), Resolved(<<>>))
       ELSE /\ stack' = [stack EXCEPT ![Len(stack)].pc = "parser"]
            /\ log' = Append(log, Event("parser", Top, Pending))
    /\ UNCHANGED <<minifierVars, projects, dependencies, scopes, result>>

\* selectExpression finds a selector: _evaluateSelector up to its await
EvaluateSelector ==
    /\ stack # <<>>
    /\ Top.pc = "start"
    /\ isSelector(Top.node)
    /\ IF scopesGet(Top.node.scope) = "undefined"
       THEN Settle(Len(stack), Rejected(SelectorError(
                UnknownScopeMessage(Top.node.scope, Top.node.value, Top.context))))
       ELSE /\ stack' = [stack EXCEPT ![Len(stack)].pc = "parser"]
            /\ log' = Append(log, Event("parser", Top, Pending))
    /\ UNCHANGED <<minifierVars, projects, dependencies, scopes, result>>

\* selectExpression finds a filter: _evaluateFilter up to its await
EvaluateFilter ==
    /\ stack # <<>>
    /\ Top.pc = "start"
    /\ ~isSelector(Top.node)
    /\ isFilter(Top.node)
    /\ IF Top.node.filter \in KnownFilters
       THEN IF Top.node.arg = <<>>
            THEN Settle(Len(stack), Rejected(TypeError))
            ELSE Await(Len(stack), <<>>, Top.node.arg[1], Top.context, 1)
       ELSE Settle(Len(stack), Rejected(SelectorError(
                UnknownFilterMessage(Top.node.filter, Top.context))))
    /\ UNCHANGED <<minifierVars, projects, dependencies, scopes, result>>

\* selectExpression finds an operator: _evaluateOperator up to its first await
EvaluateOperator ==
    /\ stack # <<>>
    /\ Top.pc = "start"
    /\ ~isSelector(Top.node)
    /\ ~isFilter(Top.node)
    /\ isOperator(Top.node)
    /\ IF Top.node.op \in KnownOperators
       THEN IF Top.node.args = <<>>
            THEN Settle(Len(stack), Rejected(TypeError))
            ELSE Await(Len(stack), <<>>, Top.node.args[1], Top.context, 1)
       ELSE Settle(Len(stack), Rejected(SelectorError(
                UnknownOperatorMessage(Top.node.op, Top.context))))
    /\ UNCHANGED <<minifierVars, projects, dependencies, scopes, result>>

\* a selectExpression whose last branch selects nothing
InvalidObject_ReturnsEmpty ==
    /\ stack # <<>>
    /\ Top.pc = "start"
    /\ ~isSelector(Top.node)
    /\ ~isFilter(Top.node)
    /\ ~isOperator(Top.node)
    /\ Settle(Len(stack), Resolved(<<>>))
    /\ UNCHANGED <<minifierVars, projects, dependencies, scopes, result>>

\* selectExpression finds none of the three shapes
InvalidObject ==
    /\ stack # <<>>
    /\ Top.pc = "start"
    /\ ~isSelector(Top.node)
    /\ ~isFilter(Top.node)
    /\ ~isOperator(Top.node)
    /\ Settle(Len(stack), Rejected(SelectorError(InvalidObjectMessage(Top.context))))
    /\ UNCHANGED <<minifierVars, projects, dependencies, scopes, result>>

\* a name, tag, version-policy or git parser settles; _evaluateSelector returns
\* a copy of what it yields
ScopeParserSettles ==
    /\ stack # <<>>
    /\ Top.pc = "parser"
    /\ scopesGet(Top.node.scope) # "JsonFileSelectorParser"
    /\ \E outcome \in evaluateSelectorAsync(scopesGet(Top.node.scope),
                                            Top.node.value, Top.context) :
          Settle(Len(stack), outcome)
    /\ UNCHANGED <<minifierVars, projects, dependencies, scopes, result>>

\* a parser resolves to an Iterable that yields any sequence of projects;
\* _evaluateSelector returns a copy of it
ScopeParserYields ==
    /\ stack # <<>>
    /\ Top.pc = "parser"
    /\ scopesGet(Top.node.scope) # "JsonFileSelectorParser"
    /\ \E yielded \in Yields : Settle(Len(stack), Resolved(yielded))
    /\ UNCHANGED <<minifierVars, projects, dependencies, scopes, result>>

\* JsonFileSelectorParser.evaluateSelectorAsync up to its call of selectExpression
JsonFileSelectorParser ==
    /\ stack # <<>>
    /\ Top.pc = "parser"
    /\ scopesGet(Top.node.scope) = "JsonFileSelectorParser"
    /\ LET absolutePath == getAbsolutePath(Top.node.value)
           loaded == tryLoadAsync(absolutePath)
       IN  IF loaded.threw
           THEN Settle(Len(stack), Rejected(loaded.error))
           ELSE IF loaded.expr = <<>>
           THEN Settle(Len(stack), Rejected(SelectorError(
                    JsonNotFoundMessage(absolutePath, Top.context))))
           ELSE /\ InclusionDepth < MaxInclusions
                /\ Await(Len(stack), <<>>, loaded.expr[1],
                         JsonFileContext(Top.node.value, Top.context), 0)
    /\ UNCHANGED <<minifierVars, projects, dependencies, scopes, result>>

\* the call a frame awaits has resolved
ChildResolved ==
    /\ Len(stack) >= 2
    /\ Top.pc = "settled"
    /\ Top.outcome.status = "ok"

Parent == stack[Len(stack) - 1]

\* the expression of a JSON file resolved: the selector returns a copy of it
ResumeSelector ==
    /\ ChildResolved
    /\ isSelector(Parent.node)
    /\ Settle(Len(stack) - 1, Resolved(Top.outcome.value))
    /\ UNCHANGED <<minifierVars, projects, dependencies, scopes, result>>

\* the argument of a filter resolved
ResumeFilter ==
    /\ ChildResolved
    /\ ~isSelector(Parent.node)
    /\ isFilter(Parent.node)
    /\ Settle(Len(stack) - 1,
              Resolved(EvaluateFilterResult(Parent.node.filter, Top.outcome.value)))
    /\ UNCHANGED <<minifierVars, projects, dependencies, scopes, result>>

\* a _evaluateOperator whose 'and' returns at once when its left side is empty
ResumeOperator_ShortCircuit ==
    /\ ChildResolved
    /\ ~isSelector(Parent.node)
    /\ ~isFilter(Parent.node)
    /\ LET vals == Append(Parent.vals, Top.outcome.value)
           args == Parent.node.args
       IN  IF Parent.node.op = "and" /\ vals = << <<>> >>
           THEN Settle(Len(stack) - 1, Resolved(<<>>))
           ELSE IF Len(vals) < OperatorArity(Parent.node.op)
           THEN IF Len(args) > Len(vals)
                THEN Await(Len(stack) - 1, vals, args[Len(vals) + 1],
                           Parent.context, Len(vals) + 1)
                ELSE Settle(Len(stack) - 1, Rejected(TypeError))
           ELSE Settle(Len(stack) - 1,
                       Resolved(EvaluateOperatorResult(Parent.node.op, vals)))
    /\ UNCHANGED <<minifierVars, projects, dependencies, scopes, result>>

\* a _evaluateOperator whose 'not' removes the projects from the
\* configuration's own list
ResumeOperator_NotInPlace ==
    /\ ChildResolved
    /\ ~isSelector(Parent.node)
    /\ ~isFilter(Parent.node)
    /\ LET vals == Append(Parent.vals, Top.outcome.value)
           args == Parent.node.args
       IN  /\ IF Len(vals) < OperatorArity(Parent.node.op)
              THEN IF Len(args) > Len(vals)
                   THEN Await(Len(stack) - 1, vals, args[Len(vals) + 1],
                              Parent.context, Len(vals) + 1)
                   ELSE Settle(Len(stack) - 1, Rejected(TypeError))
              ELSE Settle(Len(stack) - 1,
                          Resolved(EvaluateOperatorResult(Parent.node.op, vals)))
           /\ projects' = IF Parent.node.op = "not"
                           THEN EvaluateOperatorResult("not", vals)
                           ELSE projects
    /\ UNCHANGED <<minifierVars, dependencies, scopes, result>>

\* an argument of an operator resolved: the next argument is evaluated, or the
\* operator returns
ResumeOperator ==
    /\ ChildResolved
    /\ ~isSelector(Parent.node)
    /\ ~isFilter(Parent.node)
    /\ LET vals == Append(Parent.vals, Top.outcome.value)
           args == Parent.node.args
       IN  IF Len(vals) < OperatorArity(Parent.node.op)
           THEN IF Len(args) > Len(vals)
                THEN Await(Len(stack) - 1, vals, args[Len(vals) + 1],
                           Parent.context, Len(vals) + 1)
                ELSE Settle(Len(stack) - 1, Rejected(TypeError))
           ELSE Settle(Len(stack) - 1,
                       Resolved(EvaluateOperatorResult(Parent.node.op, vals)))
    /\ UNCHANGED <<minifierVars, projects, dependencies, scopes, result>>

\* an await that wraps the error of the call it awaited
Propagate_Wraps ==
    /\ Len(stack) >= 2
    /\ Top.pc = "settled"
    /\ Top.outcome.status = "err"
    /\ Settle(Len(stack) - 1, Rejected(SelectorError(
            <<"Failed to evaluate: ">> \o Top.outcome.error.message)))
    /\ UNCHANGED <<minifierVars, projects, dependencies, scopes, result>>

\* the call a frame awaits has rejected: the await rethrows
Propagate ==
    /\ Len(stack) >= 2
    /\ Top.pc = "settled"
    /\ Top.outcome.status = "err"
    /\ Settle(Len(stack) - 1, Top.outcome)
    /\ UNCHANGED <<minifierVars, projects, dependencies, scopes, result>>

\* the promise of the root call settles
Complete ==
    /\ Len(stack) = 1
    /\ Top.pc = "settled"
    /\ result' = Top.outcome
    /\ stack' = <<>>
    /\ UNCHANGED <<minifierVars, projects, dependencies, scopes, log>>

\* the caller takes the outcome; the selector is ready for the next call
CallerAwaits ==
    /\ stack = <<>>
    /\ result.status \in {"ok", "err"}
    /\ result' = NoCall
    /\ log' = <<>>
    /\ UNCHANGED <<minifierVars, projects, dependencies, scopes, stack>>

Evaluate ==
    \/ EvaluateSelector
    \/ EvaluateFilter
    \/ EvaluateOperator
    \/ InvalidObject
    \/ ScopeParserSettles
    \/ JsonFileSelectorParser
    \/ ResumeSelector
    \/ ResumeFilter
    \/ ResumeOperator
    \/ Propagate
    \/ Complete
    \/ CallerAwaits

Next == SelectExpression \/ Evaluate

NextGraphs == SelectGraphExpression \/ Evaluate

Spec == Init /\ [][Next]_vars

NextUnvalidated == SelectUnvalidatedExpression \/ Evaluate

NextYields == SelectYieldExpression \/ ScopeParserYields \/ Evaluate

SpecGraphs == InitGraphs /\ [][NextGraphs]_vars

SpecUnvalidated == Init /\ [][NextUnvalidated]_vars

SpecYields == Init /\ [][NextYields]_vars

\* a LocalMinifier serving minify calls; the project selector is not used
InitMinifier == Constructed /\ NewLocalMinifier /\ dependencies = Chain

NextMinifier == Minify \/ MinifySingleFileSettles \/ ThenHandler \/ CatchHandler

SpecMinifier == InitMinifier /\ [][NextMinifier]_vars

----------------------------------------------------------------------------
(* Reading the log of one evaluation *)

\* the calls of selectExpression made so far, and those that have settled
Entered == {e \in Range(log) : e.ev = "enter"}

Evaluated == {e \in Range(log) : e.ev = "exit"}

\* the settled call at a path
EvaluatedAt(path) == {e \in Evaluated : e.path = path}

\* the root call has settled and nothing is pending
Settled == stack = <<>> /\ result.status \in {"ok", "err"}

\* a node of one shape only, as the schema has it
IsFilterNode(node, filter) == node.scope = "" /\ node.filter = filter /\ node.op = ""

IsOperatorNode(node, op) == node.scope = "" /\ node.filter = "" /\ node.op = op

\* once the root call has settled, the call n has settled too; and however it
\* settled satisfies P
SettlesWith(n, P(_)) ==
    /\ Settled => EvaluatedAt(n.path) # {}
    /\ \A e \in EvaluatedAt(n.path) : P(e)

\* the projects reached from S by at most k dependency edges
RECURSIVE WithinHops(_, _)
WithinHops(S, k) ==
    IF k = 0 THEN S
    ELSE LET R == WithinHops(S, k - 1)
         IN  R \cup {q \in Projects : \E p \in R : <<p, q>> \in dependencies}

\* the projects that reach S by at most k dependency edges
RECURSIVE WithinHopsBack(_, _)
WithinHopsBack(S, k) ==
    IF k = 0 THEN S
    ELSE LET R == WithinHopsBack(S, k - 1)
         IN  R \cup {q \in Projects : \E p \in R : <<q, p>> \in dependencies}

\* zero or more edges: no simple path has more than NumProjects - 1
DependencyClosure(S) == WithinHops(S, NumProjects)

ConsumerClosure(S) == WithinHopsBack(S, NumProjects)

\* A depends on B depends on C
ChainABC == {<<"A", "B">>, <<"B", "C">>}

----------------------------------------------------------------------------
(* C1 *)

\* C1: whenever the argument X of a 'to' filter has resolved, the filter
\* resolves to exactly the projects reachable from the result of X by zero or
\* more dependency edges, on every dependency graph; on A -> B -> C, 'to' of
\* name:A is {A, B, C}.
C1_ToIsDependencyClosure ==
    \A n \in Entered : IsFilterNode(n.node, "to") =>
        \A x \in EvaluatedAt(Append(n.path, 1)) : x.outcome.status = "ok" =>
            SettlesWith(n, LAMBDA e :
                /\ e.outcome.status = "ok"
                /\ Range(e.outcome.value) = DependencyClosure(Range(x.outcome.value))
                /\ (dependencies = ChainABC /\ n.node = Flt("to", Sel("name", "A"))
                        => Range(e.outcome.value) = {"A", "B", "C"}))

\* 'to' of name:A has resolved to {A, B, C} on the chain A -> B -> C
C1_Witness ==
    /\ dependencies = ChainABC
    /\ Settled
    /\ result.status = "ok"
    /\ Range(result.value) = {"A", "B", "C"}
    /\ \E e \in EvaluatedAt(<<>>) : e.node = Flt("to", Sel("name", "A"))

----------------------------------------------------------------------------
(* C2 *)

\* C2: whenever the argument X of a 'from' filter has resolved, the filter
\* resolves to exactly the dependency closure of the consumer closure of the
\* result of X, on every dependency graph; on A -> B -> C, 'from' of name:C is
\* {A, B, C}.
C2_FromIsClosureOfConsumers ==
    \A n \in Entered : IsFilterNode(n.node, "from") =>
        \A x \in EvaluatedAt(Append(n.path, 1)) : x.outcome.status = "ok" =>
            SettlesWith(n, LAMBDA e :
                /\ e.outcome.status = "ok"
                /\ Range(e.outcome.value) =
                       DependencyClosure(ConsumerClosure(Range(x.outcome.value)))
                /\ (dependencies = ChainABC /\ n.node = Flt("from", Sel("name", "C"))
                        => Range(e.outcome.value) = {"A", "B", "C"}))

\* 'from' has resolved to a set that is neither the consumer closure of its
\* argument nor the consumer closure of the dependency closure
C2_Witness ==
    /\ Settled
    /\ result.status = "ok"
    /\ \E e \in EvaluatedAt(<<>>) :
          /\ IsFilterNode(e.node, "from")
          /\ \E x \in EvaluatedAt(<<1>>) :
                /\ Range(result.value) # ConsumerClosure(Range(x.outcome.value))
                /\ Range(result.value) #
                       ConsumerClosure(DependencyClosure(Range(x.outcome.value)))

----------------------------------------------------------------------------
(* C3 *)

\* C3: whenever the argument X of a 'not' operator has resolved, the operator
\* resolves to exactly the projects of the configuration's project list that
\* are not in the result of X.
C3_NotIsComplement ==
    \A n \in Entered : IsOperatorNode(n.node, "not") /\ Len(n.node.args) = 1 =>
        \A x \in EvaluatedAt(Append(n.path, 1)) : x.outcome.status = "ok" =>
            SettlesWith(n, LAMBDA e :
                /\ e.outcome.status = "ok"
                /\ Range(e.outcome.value) = Range(projects) \ Range(x.outcome.value))

\* a 'not' has resolved whose argument selected some projects and not all
C3_Witness ==
    \E e \in Evaluated :
        /\ IsOperatorNode(e.node, "not")
        /\ e.outcome.status = "ok"
        /\ e.outcome.value # <<>>
        /\ \E x \in EvaluatedAt(Append(e.path, 1)) : x.outcome.value # <<>>

----------------------------------------------------------------------------
(* C4 *)

\* C4: whenever both arguments X and Y of an 'and' operator have resolved, the
\* operator resolves to exactly the projects in both results; for disjoint
\* results that is the empty array, not an error.
C4_AndIsIntersection ==
    \A n \in Entered : IsOperatorNode(n.node, "and") /\ Len(n.node.args) = 2 =>
        \A x \in EvaluatedAt(Append(n.path, 1)), y \in EvaluatedAt(Append(n.path, 2)) :
            x.outcome.status = "ok" /\ y.outcome.status = "ok" =>
                SettlesWith(n, LAMBDA e :
                    /\ e.outcome.status = "ok"
                    /\ Range(e.outcome.value) =
                           Range(x.outcome.value) \cap Range(y.outcome.value)
                    /\ (Range(x.outcome.value) \cap Range(y.outcome.value) = {}
                            => e.outcome = Resolved(<<>>)))

\* tag:frontend and tag:backend has resolved to the empty array
C4_Witness ==
    /\ Settled
    /\ result = Resolved(<<>>)
    /\ \E e \in EvaluatedAt(<<>>) :
          e.node = Op("and", <<Sel("tag", "frontend"), Sel("tag", "backend")>>)
    /\ \E x \in EvaluatedAt(<<1>>) : Range(x.outcome.value) = {"A", "B"}
    /\ \E y \in EvaluatedAt(<<2>>) : Range(y.outcome.value) = {"C"}

----------------------------------------------------------------------------
(* C5 *)

\* C5: whenever both arguments X and Y of an 'or' operator have resolved, the
\* operator resolves to exactly the projects in at least one of the results,
\* and combining the two results in the other order gives the same set.
C5_OrIsUnion ==
    \A n \in Entered : IsOperatorNode(n.node, "or") /\ Len(n.node.args) = 2 =>
        \A x \in EvaluatedAt(Append(n.path, 1)), y \in EvaluatedAt(Append(n.path, 2)) :
            x.outcome.status = "ok" /\ y.outcome.status = "ok" =>
                SettlesWith(n, LAMBDA e :
                    /\ e.outcome.status = "ok"
                    /\ Range(e.outcome.value) =
                           Range(x.outcome.value) \cup Range(y.outcome.value)
                    /\ Range(e.outcome.value) =
                           Range(EvaluateOperatorResult("or",
                                     <<y.outcome.value, x.outcome.value>>)))

\* an 'or' has resolved whose arguments each selected a project the other did not
C5_Witness ==
    \E e \in Evaluated :
        /\ IsOperatorNode(e.node, "or")
        /\ e.outcome.status = "ok"
        /\ \E x \in EvaluatedAt(Append(e.path, 1)), y \in EvaluatedAt(Append(e.path, 2)) :
              /\ Range(x.outcome.value) \ Range(y.outcome.value) # {}
              /\ Range(y.outcome.value) \ Range(x.outcome.value) # {}

----------------------------------------------------------------------------
(* C6 *)

\* C6: an 'only' filter settles exactly as its argument X settled: resolved to
\* the same projects when X resolved, rejected with the same error when X
\* rejected.
C6_OnlyIsIdentity ==
    \A n \in Entered : IsFilterNode(n.node, "only") =>
        \A x \in EvaluatedAt(Append(n.path, 1)) :
            SettlesWith(n, LAMBDA e :
                /\ e.outcome.status = x.outcome.status
                /\ Range(e.outcome.value) = Range(x.outcome.value)
                /\ e.outcome.error = x.outcome.error)

\* an 'only' has resolved to some projects that depend on others
C6_Witness ==
    \E e \in Evaluated :
        /\ IsFilterNode(e.node, "only")
        /\ e.outcome.status = "ok"
        /\ DependencyClosure(Range(e.outcome.value)) # Range(e.outcome.value)

----------------------------------------------------------------------------
(* C7 *)

\* C7: whenever X has resolved as the argument of a 'not' that is itself the
\* argument of a 'not', the outer 'not' resolves to the same set of projects
\* as X.
C7_NotNotIsIdentity ==
    \A n \in Entered :
        (/\ IsOperatorNode(n.node, "not")
         /\ Len(n.node.args) = 1
         /\ IsOperatorNode(n.node.args[1], "not")
         /\ Len(n.node.args[1].args) = 1) =>
            \A x \in EvaluatedAt(n.path \o <<1, 1>>) : x.outcome.status = "ok" =>
                SettlesWith(n, LAMBDA e :
                    /\ e.outcome.status = "ok"
                    /\ Range(e.outcome.value) = Range(x.outcome.value))

\* a 'not' of a 'not' has resolved to some projects, the first of the project
\* list among them
C7_Witness ==
    /\ Settled
    /\ result.status = "ok"
    /\ projects[1] \in Range(result.value)
    /\ \E e \in EvaluatedAt(<<>>) :
          /\ IsOperatorNode(e.node, "not")
          /\ IsOperatorNode(e.node.args[1], "not")

----------------------------------------------------------------------------
(* C8 *)

\* the five scope names of the selector grammar
ListedScopes == {"name", "git", "tag", "version-policy", "json"}

\* C8: the registered scopes are name, git, tag, version-policy and json; a
\* selector with any other scope invokes no scope parser and rejects with a
\* SelectorError whose message contains the scope, the selector's value and
\* the context (the caller's included); it never resolves, and a root call
\* on it fails with that error.
C8_UnknownScopeFails ==
    /\ DOMAIN scopes = ListedScopes
    /\ \A n \in Entered : n.node.scope # "" /\ n.node.scope \notin ListedScopes =>
          /\ \A p \in Range(log) : ~(p.ev = "parser" /\ p.path = n.path)
          /\ SettlesWith(n, LAMBDA e :
                /\ e.outcome.status = "err"
                /\ e.outcome.error.kind = "SelectorError"
                /\ Contains(e.outcome.error.message, <<n.node.scope>>)
                /\ Contains(e.outcome.error.message, <<n.node.value>>)
                /\ Contains(e.outcome.error.message, n.context)
                /\ Contains(e.outcome.error.message, log[1].context)
                /\ (n.path = <<>> /\ Settled => result = e.outcome))

\* selectExpression of the selector bogus:x has failed
C8_Witness ==
    /\ Settled
    /\ result.status = "err"
    /\ \E e \in EvaluatedAt(<<>>) : e.node = Sel("bogus", "x")

----------------------------------------------------------------------------
(* C9 *)

\* the calls made for the sub-expressions of the node of call n
Descendants(n) ==
    {c \in Entered : Len(c.path) > Len(n.path) /\ IsPrefix(n.path, c.path)}

\* C9: a filter whose kind is not to, from or only, and an operator whose kind
\* is not not, and or or, rejects with a SelectorError whose message names
\* the kind and the context, and none of its sub-expressions is evaluated.
C9_UnknownKindFails ==
    \A n \in Entered :
        /\ (n.node.scope = "" /\ n.node.filter \notin {"", "to", "from", "only"}) =>
              /\ Descendants(n) = {}
              /\ SettlesWith(n, LAMBDA e :
                    /\ e.outcome.status = "err"
                    /\ e.outcome.error.kind = "SelectorError"
                    /\ Contains(e.outcome.error.message, <<n.node.filter>>)
                    /\ Contains(e.outcome.error.message, n.context))
        /\ (/\ n.node.scope = ""
            /\ n.node.filter = ""
            /\ n.node.op \notin {"", "not", "and", "or"}) =>
              /\ Descendants(n) = {}
              /\ SettlesWith(n, LAMBDA e :
                    /\ e.outcome.status = "err"
                    /\ e.outcome.error.kind = "SelectorError"
                    /\ Contains(e.outcome.error.message, <<n.node.op>>)
                    /\ Contains(e.outcome.error.message, n.context))

\* an unknown filter with an argument has failed inside an expression
C9_Witness ==
    /\ Settled
    /\ result.status = "err"
    /\ \E e \in Evaluated :
          /\ e.path # <<>>
          /\ e.node.scope = ""
          /\ e.node.filter = "up"
          /\ e.node.arg # <<>>

----------------------------------------------------------------------------
(* C10 *)

\* C10: a node with no truthy scope, filter or op rejects with a SelectorError
\* whose message carries the context; it never resolves, and a root call on
\* it fails with that error.
C10_InvalidObjectFails ==
    \A n \in Entered : n.node.scope = "" /\ n.node.filter = "" /\ n.node.op = "" =>
        SettlesWith(n, LAMBDA e :
            /\ e.outcome.status = "err"
            /\ e.outcome.error.kind = "SelectorError"
            /\ Contains(e.outcome.error.message, n.context)
            /\ Contains(e.outcome.error.message, log[1].context)
            /\ (n.path = <<>> /\ Settled => result = e.outcome))

\* selectExpression of {} has failed
C10_Witness ==
    /\ Settled
    /\ result.status = "err"
    /\ \E e \in EvaluatedAt(<<>>) : e.node = EmptyObject

----------------------------------------------------------------------------
(* C11 *)

\* the call n is evaluated as a filter without arg, or as a not, and or or
\* with fewer args than the operator reads
MissingArg(n) ==
    /\ n.node.scope = ""
    /\ \/ n.node.filter # "" /\ n.node.arg = <<>>
       \/ /\ n.node.filter = ""
          /\ n.node.op \in KnownOperators
          /\ Len(n.node.args) < OperatorArity(n.node.op)

\* C11: a filter whose arg is missing, a 'not' without args and an 'and' or
\* 'or' with fewer than two args reject with a SelectorError and with no
\* other kind of exception.
C11_MissingArgFailsWithSelectorError ==
    \A n \in Entered : MissingArg(n) =>
        SettlesWith(n, LAMBDA e :
            /\ e.outcome.status = "err"
            /\ e.outcome.error.kind = "SelectorError")

----------------------------------------------------------------------------
(* C12 *)

\* the calls that evaluate a JSON-file selector whose expression the call n
\* is part of
Includers(n) ==
    {a \in Entered : /\ a.node.scope = "json"
                     /\ IsPrefix(Append(a.path, 0), n.path)}

\* the call n evaluates a JSON-file selector of a file that is being evaluated
\* on its own inclusion chain
SelectsItself(n) ==
    /\ n.node.scope = "json"
    /\ \E a \in Includers(n) :
          getAbsolutePath(a.node.value) = getAbsolutePath(n.node.value)

\* C12: a JSON-file selector that names a file on its own inclusion chain
\* rejects, and the expression of that file is not evaluated again.
C12_CyclicInclusionFails ==
    \A n \in Entered : SelectsItself(n) =>
        /\ Descendants(n) = {}
        /\ SettlesWith(n, LAMBDA e : e.outcome.status = "err")

----------------------------------------------------------------------------
(* C13 *)

\* C13: a JSON-file selector whose file does not exist, and one whose file
\* exists but fails to load or to validate, rejects with a SelectorError; the
\* loader's own error does not reach the caller.
C13_JsonFailsWithSelectorError ==
    \A n \in Entered :
        /\ n.node.scope = "json"
        /\ FileSystem(getAbsolutePath(n.node.value)).state \in {"notExist", "invalid"}
        => SettlesWith(n, LAMBDA e :
                /\ e.outcome.status = "err"
                /\ e.outcome.error.kind = "SelectorError"
                /\ e.outcome.error # LoaderError
                /\ (n.path = <<>> /\ Settled => result = e.outcome))

----------------------------------------------------------------------------
(* C14 *)

\* the positions of the log where the call at a path was made, or settled
LogIndex(ev, path) == {i \in DOMAIN log : log[i].ev = ev /\ log[i].path = path}

\* C14: in an 'and' or 'or' of two arguments the right argument is entered
\* only after the left one has resolved and every call of the left subtree
\* has been logged; once the left has resolved the operator does not settle
\* without the right having settled, also when the left result is empty; and
\* when the right rejects the operator rejects with the error of the right.
C14_LeftThenAlwaysRight ==
    \A n \in Entered :
        (IsOperatorNode(n.node, "and") \/ IsOperatorNode(n.node, "or"))
        /\ Len(n.node.args) = 2 =>
            LET left == Append(n.path, 1)
                right == Append(n.path, 2)
            IN  /\ \A i \in LogIndex("enter", right) :
                      /\ \E j \in LogIndex("exit", left) :
                            j < i /\ log[j].outcome.status = "ok"
                      /\ \A k \in DOMAIN log : IsPrefix(left, log[k].path) => k < i
                /\ \A x \in EvaluatedAt(left) : x.outcome.status = "ok" =>
                      /\ Settled => EvaluatedAt(right) # {}
                      /\ EvaluatedAt(n.path) # {} => EvaluatedAt(right) # {}
                /\ \A y \in EvaluatedAt(right) : y.outcome.status = "err" =>
                      SettlesWith(n, LAMBDA e : e.outcome = y.outcome)

\* an 'and' whose left side resolved to no project and whose right side
\* rejected has failed
C14_Witness ==
    /\ Settled
    /\ result.status = "err"
    /\ \E n \in Entered :
          /\ IsOperatorNode(n.node, "and")
          /\ \E x \in EvaluatedAt(Append(n.path, 1)) :
                x.outcome.status = "ok" /\ x.outcome.value = <<>>
          /\ \E y \in EvaluatedAt(Append(n.path, 2)) : y.outcome.status = "err"

----------------------------------------------------------------------------
(* C15 *)

\* C15: once a call has rejected, no further sub-expression is entered and
\* every call that settles afterwards rejects with the same error; every
\* call the failed one is nested in rejects with that error, and so does the
\* root call: the caller receives the error of the first failure as it was
\* raised, and no result. A scope parser's rejection is the rejection of its
\* selector.
C15_FirstErrorReachesCaller ==
    /\ \A i \in DOMAIN log : log[i].ev = "exit" /\ log[i].outcome.status = "err" =>
          /\ \A j \in DOMAIN log : j > i =>
                log[j].ev = "exit" /\ log[j].outcome = log[i].outcome
          /\ \A a \in Entered : IsPrefix(a.path, log[i].path) =>
                SettlesWith(a, LAMBDA e : e.outcome = log[i].outcome)
          /\ Settled => result = log[i].outcome
    /\ \A p \in Range(log) :
          p.ev = "parser" /\ scopesGet(p.node.scope) # "JsonFileSelectorParser" =>
              \A e \in EvaluatedAt(p.path) :
                  e.outcome \in evaluateSelectorAsync(scopesGet(p.node.scope),
                                                      p.node.value, p.context)

\* the root call has failed with the error of a call nested at least two
\* levels down, after a left sibling had resolved
C15_Witness ==
    /\ Settled
    /\ result.status = "err"
    /\ \E e \in Evaluated :
          /\ Len(e.path) >= 2
          /\ e.outcome = result
          /\ Descendants(e) = {}
          /\ \E x \in Evaluated : x.outcome.status = "ok"

----------------------------------------------------------------------------
(* C16 *)

\* no project more than once
NoDuplicates(s) == \A i, j \in DOMAIN s : s[i] = s[j] => i = j

\* what the scope parsers other than the JSON-file one have yielded
ParserYields ==
    {e \in Evaluated :
        /\ e.outcome.status = "ok"
        /\ \E p \in Range(log) : p.ev = "parser" /\ p.path = e.path
        /\ scopesGet(e.node.scope) # "JsonFileSelectorParser"}

\* C16: whatever sequences the scope parsers yield, every call that resolves
\* returns a sequence without a repeated project.
C16_NoDuplicates ==
    \A e \in Evaluated : e.outcome.status = "ok" => NoDuplicates(e.outcome.value)

\* C16, amended: whatever the scope parsers yield, the results of to, from,
\* not, and and or hold no project more than once; a selector returns the
\* sequence its parser yielded and 'only' the one its argument resolved to,
\* as they are; so when no parser has yielded a project twice, no call
\* returns one twice.
C16_NoDuplicatesUnlessYielded ==
    /\ \A e \in Evaluated :
          /\ e.outcome.status = "ok"
          /\ e.node.scope = ""
          /\ e.node.filter # "only"
          => NoDuplicates(e.outcome.value)
    /\ \A n \in Entered : IsFilterNode(n.node, "only") =>
          \A x \in EvaluatedAt(Append(n.path, 1)) : x.outcome.status = "ok" =>
              SettlesWith(n, LAMBDA e : e.outcome = x.outcome)
    /\ (\A y \in ParserYields : NoDuplicates(y.outcome.value)) =>
          \A e \in Evaluated : e.outcome.status = "ok" => NoDuplicates(e.outcome.value)

\* an 'or' of two selectors whose parsers yielded a common project, and no
\* project twice, has resolved
C16_Witness ==
    /\ Settled
    /\ result.status = "ok"
    /\ \A y \in ParserYields : NoDuplicates(y.outcome.value)
    /\ \E n \in Entered :
          /\ n.path = <<>>
          /\ IsOperatorNode(n.node, "or")
          /\ \E x \in EvaluatedAt(<<1>>), y \in EvaluatedAt(<<2>>) :
                Range(x.outcome.value) \cap Range(y.outcome.value) # {}

----------------------------------------------------------------------------
(* C17 *)

\* C17: whenever X has resolved, 'to' of 'to' of X resolves to what 'to' of X
\* resolved to, on every dependency graph, cyclic ones included; that result
\* holds every project of the result of X, and one more hop along the
\* dependency edges adds nothing to it.
C17_ToIsIdempotent ==
    \A n \in Entered :
        IsFilterNode(n.node, "to") /\ IsFilterNode(n.node.arg[1], "to") =>
            \A x \in EvaluatedAt(n.path \o <<1, 1>>) : x.outcome.status = "ok" =>
                /\ SettlesWith([path |-> Append(n.path, 1)], LAMBDA i :
                      /\ i.outcome.status = "ok"
                      /\ Range(x.outcome.value) \subseteq Range(i.outcome.value)
                      /\ WithinHops(Range(i.outcome.value), 1) = Range(i.outcome.value))
                /\ \A i \in EvaluatedAt(Append(n.path, 1)) :
                      SettlesWith(n, LAMBDA e : e.outcome = i.outcome)

\* 'to' of 'to' of a selector has resolved to more projects than the selector
\* did, on a graph with a dependency cycle
C17_Witness ==
    /\ Settled
    /\ result.status = "ok"
    /\ \E p \in Projects : \E k \in 1..NumProjects : p \in WithinHops(WithinHops({p}, 1) \ {p}, k)
    /\ \E n \in Entered :
          /\ n.path = <<>>
          /\ IsFilterNode(n.node, "to")
          /\ IsFilterNode(n.node.arg[1], "to")
          /\ \E x \in EvaluatedAt(<<1, 1>>) :
                Cardinality(Range(result.value)) > Cardinality(Range(x.outcome.value))

----------------------------------------------------------------------------
(* C18 *)

\* C18: no step of an evaluation, of a succeeding or of a failing call,
\* changes the project list, the dependency edges or the scope registry;
\* after any sequence of calls the registered scopes and the projects are
\* those of the construction.
C18_GraphAndRegistryUnchanged ==
    /\ [](scopes = RegisteredScopes /\ projects = ProjectList)
    /\ [][/\ projects' = projects
          /\ dependencies' = dependencies
          /\ scopes' = scopes]_vars

\* a 'not' has resolved, and the registry and the project list are those of
\* the construction
C18_Witness ==
    /\ Settled
    /\ result.status = "ok"
    /\ \E e \in EvaluatedAt(<<>>) : IsOperatorNode(e.node, "not")
    /\ Len(result.value) < NumProjects
    /\ projects = ProjectList
    /\ DOMAIN scopes = ListedScopes

----------------------------------------------------------------------------
(* C19 *)

\* the calls made for the arguments of the node of call n
ArgumentCalls(n) ==
    {c \in Entered : \E i \in {1, 2} : c.path = Append(n.path, i)}

\* C19: a node with a non-empty scope is evaluated as a selector, whatever
\* filter or op it carries: none of its arguments is evaluated and it settles
\* as its scope parser does. A node with an empty scope and a non-empty
\* filter is evaluated as a filter, whatever op it carries: its arg is the
\* one argument evaluated and a known filter resolves to the filter's result.
\* A node with an empty scope and filter and a non-empty op is evaluated
\* as an operator. A node with an empty scope reaches no scope parser and
\* no unknown-scope error.
C19_SelectorThenFilterThenOperator ==
    \A n \in Entered :
        /\ n.node.scope # "" =>
              /\ ArgumentCalls(n) = {}
              /\ scopesGet(n.node.scope) = "undefined" =>
                    SettlesWith(n, LAMBDA e :
                        e.outcome = Rejected(SelectorError(UnknownScopeMessage(
                                        n.node.scope, n.node.value, n.context))))
              /\ scopesGet(n.node.scope) \notin {"undefined", "JsonFileSelectorParser"} =>
                    SettlesWith(n, LAMBDA e :
                        e.outcome \in evaluateSelectorAsync(scopesGet(n.node.scope),
                                                            n.node.value, n.context))
        /\ n.node.scope = "" =>
              /\ \A p \in Range(log) : ~(p.ev = "parser" /\ p.path = n.path)
              /\ \A e \in EvaluatedAt(n.path) :
                    e.outcome # Rejected(SelectorError(UnknownScopeMessage(
                                    "", n.node.value, n.context)))
        /\ n.node.scope = "" /\ n.node.filter \in KnownFilters /\ n.node.arg # <<>> =>
              /\ \A c \in ArgumentCalls(n) :
                    c.path = Append(n.path, 1) /\ c.node = n.node.arg[1]
              /\ \A x \in EvaluatedAt(Append(n.path, 1)) : x.outcome.status = "ok" =>
                    SettlesWith(n, LAMBDA e :
                        e.outcome = Resolved(EvaluateFilterResult(n.node.filter,
                                                                  x.outcome.value)))
        /\ (/\ n.node.scope = ""
            /\ n.node.filter = ""
            /\ n.node.op = "not"
            /\ Len(n.node.args) = 1) =>
              /\ \A c \in ArgumentCalls(n) :
                    c.path = Append(n.path, 1) /\ c.node = n.node.args[1]
              /\ \A x \in EvaluatedAt(Append(n.path, 1)) : x.outcome.status = "ok" =>
                    SettlesWith(n, LAMBDA e :
                        e.outcome = Resolved(EvaluateOperatorResult("not",
                                                                    <<x.outcome.value>>)))

\* a node with scope, filter and op has resolved to what its scope selects,
\* and a node with filter and op to what its filter returns
C19_Witness ==
    /\ Settled
    /\ result.status = "ok"
    /\ \E e \in EvaluatedAt(<<1>>) :
          /\ e.node.scope # "" /\ e.node.filter # "" /\ e.node.op # ""
          /\ e.outcome.status = "ok"
    /\ \E e \in EvaluatedAt(<<>>) :
          /\ e.node.scope = "" /\ e.node.filter # ""

----------------------------------------------------------------------------
(* C20 *)

\* the node of the call at a path
NodeAt(path) == (CHOOSE a \in Entered : a.path = path).node

\* the context of the call at a path, read off the inclusion chain: one
\* "JSON file V in " for every JSON file between the call and the root, the
\* innermost first, then the context the caller passed
RECURSIVE ChainContext(_)
ChainContext(path) ==
    IF path = <<>> THEN log[1].context
    ELSE LET parent == SubSeq(path, 1, Len(path) - 1)
         IN  IF path[Len(path)] = 0
             THEN <<"JSON file ", NodeAt(parent).value, " in ">> \o ChainContext(parent)
             ELSE ChainContext(parent)

\* the call e rejected with an error raised in it, not in a call it awaited
RaisedAt(e) ==
    /\ e.outcome.status = "err"
    /\ \A c \in Evaluated :
          Len(c.path) > Len(e.path) /\ IsPrefix(e.path, c.path) => c.outcome.status = "ok"

\* C20: the expression loaded by a JSON-file selector with value V under
\* context C is evaluated under "JSON file V in C"; so every call runs under
\* the context that names the files of its inclusion chain, innermost first,
\* followed by the caller's context, and a SelectorError raised in a call
\* carries that whole context, every file of the chain included.
C20_ContextNamesInclusionChain ==
    \A n \in Entered :
        /\ n.context = ChainContext(n.path)
        /\ \A c \in Entered : c.path = Append(n.path, 0) =>
              c.context = <<"JSON file ", n.node.value, " in ">> \o n.context
        /\ \A e \in EvaluatedAt(n.path) :
              RaisedAt(e) /\ e.outcome.error.kind = "SelectorError" =>
                  /\ Contains(e.outcome.error.message, ChainContext(n.path))
                  /\ \A a \in Includers(n) :
                        Contains(e.outcome.error.message,
                                 <<"JSON file ", a.node.value, " in ">>)

\* the selector of an unknown scope in deep.json, included by ./nested.json,
\* has failed with an error that names deep.json, then ./nested.json, then the
\* caller's context
C20_Witness ==
    /\ Settled
    /\ result.status = "err"
    /\ \E e \in Evaluated :
          /\ Cardinality(Includers(e)) = 2
          /\ RaisedAt(e)
          /\ result = e.outcome
          /\ Contains(result.error.message,
                      <<"JSON file ", "deep.json", " in ",
                        "JSON file ", "./nested.json", " in ">> \o log[1].context)

----------------------------------------------------------------------------
(* C21 *)

\* the minify calls whose promise chain has come to its end
Finished == {i \in DOMAIN requests : requests[i].pc \in {"returned", "threw", "unhandled"}}

\* C21: no minify call invokes its callback more than once, and a call
\* whose work has come to its end has invoked it exactly once: on a cache
\* hit, after a resolved and after a rejected minification, and when the
\* callback throws.
C21_CallbackExactlyOnce ==
    /\ \A i \in DOMAIN requests : Len(requests[i].calls) <= 1
    /\ \A i \in Finished : Len(requests[i].calls) = 1

----------------------------------------------------------------------------
(* C22 *)

\* the minify call this step makes, as a one-element set; empty for any other step
NewRequest ==
    IF Len(requests') = Len(requests) + 1 THEN {requests'[Len(requests')]} ELSE {}

\* C22: in every interleaving of minify calls, the cache holds for a hash
\* only a result that a minification of that hash resolved to, never one
\* built for a rejected minification; a minify call made while the cache
\* holds a result for its hash does not run the minifier and gives that
\* result to its callback, leaving the cache as it is; and a call made while
\* the cache holds none for its hash runs the minifier, whether an earlier
\* minification of the hash was rejected or is still running.
C22_CacheHoldsResolvedResults ==
    /\ [](\A h \in DOMAIN resultCache :
             \E i \in DOMAIN requests :
                /\ requests[i].hash = h
                /\ requests[i].ran
                /\ requests[i].value = <<resultCache[h]>>
                /\ resultCache[h] \in MinifiedResults(h, i))
    /\ [](\A i \in DOMAIN requests :
             requests[i].error = "minifySingleFile rejected" =>
                 /\ requests[i].value = <<>>
                 /\ \A h \in DOMAIN resultCache : resultCache[h].run # i)
    /\ [][\A r \in NewRequest :
             IF r.hash \in DOMAIN resultCache
             THEN /\ ~r.ran
                  /\ r.calls = <<resultCache[r.hash]>>
                  /\ r.pc \in {"returned", "threw"}
                  /\ resultCache' = resultCache
             ELSE /\ r.ran
                  /\ r.calls = <<>>
                  /\ r.pc = "minifying"]_vars

\* three calls for one hash: the first two both ran the minifier, the first
\* resolved and was cached, and the third was given the cached result
\* without running the minifier
C22_Witness ==
    /\ Len(requests) >= 3
    /\ requests[1].hash = requests[2].hash
    /\ requests[2].hash = requests[3].hash
    /\ requests[1].ran /\ requests[2].ran
    /\ requests[1].pc = "returned" /\ requests[1].value # <<>>
    /\ ~requests[3].ran
    /\ requests[3].hash \in DOMAIN resultCache
    /\ requests[3].calls = <<resultCache[requests[3].hash]>>

====
